---------------------------- MODULE Spec2Model ----------------------------
(***************************************************************************)
(* Model of backend/main.py, the Ultra Doc-Intelligence API: the process-  *)
(* wide index state (vector_store, current_document_name), the in-memory   *)
(* Chroma collection the vector store wraps, the temporary files of        *)
(* /upload, and the handlers /upload, /ask, /extract and /status.          *)
(*                                                                         *)
(* Text is a sequence of one-character strings, so that lower(), split(),  *)
(* substring tests, slicing and concatenation are computed as the code     *)
(* computes them.  A confidence is an exact fraction [num, den].           *)
(*                                                                         *)
(* The handlers are "async def" coroutines on one event loop: a handler    *)
(* runs without interruption between two awaits.  The only await in the    *)
(* module is "await file.read()" in upload_document, so /upload is two     *)
(* steps and every other handler is one step.                              *)
(***************************************************************************)
EXTENDS Integers, Sequences, FiniteSets, TLC

VARIABLES
  vector_store,            \* global vector_store: None or the Chroma wrapper
  current_document_name,   \* global current_document_name: None or a filename
  chroma,                  \* passages of collection "logistics_docs" of the
                           \* process's in-memory Chroma client, insertion order
  tmpfiles,                \* paths of the temporary files that exist
  next_tmp,                \* next fresh temporary file name
  inflight,                \* /upload requests suspended at "await file.read()"
  response,                \* what the latest step answered (and what it observed)
  last_ok,                 \* history: the latest successful upload
  call                     \* a direct call of calculate_confidence (SpecScorer)

vars == <<vector_store, current_document_name, chroma, tmpfiles, next_tmp,
          inflight, response, last_ok, call>>

\* None, for the globals: vector_store is None or the handle of a Chroma wrapper;
\* a stored filename is never empty (its extension is an allowed one), so the
\* empty text stands for current_document_name = None.
None == "None"

NoName == <<>>

(***************************************************************************)
(* Bounds of the model.                                                    *)
(***************************************************************************)
\* temporary files created in one run (uploads that pass the extension check)
MaxTmp == 2
\* passages the collection may hold
MaxColl == 2

(***************************************************************************)
(* Program constants.                                                      *)
(***************************************************************************)
\* search_kwargs={"k": 4}
TopK == 4
\* CONFIDENCE_THRESHOLD = 0.3, in tenths
CONFIDENCE_THRESHOLD_TENTHS == 3
\* doc.page_content[:200]
PreviewLen == 200
\* source_docs[:3]
MaxSources == 3
\* full_text[:4000]
PromptDocLen == 4000
\* len(answer) > 10
MinAnswerLen == 10
\* len(answer) / 100
FullAnswerLen == 100
\* default retrieval_score = 0.8, in hundredths
DefaultRetrievalScore == 80

(***************************************************************************)
(* Texts.                                                                  *)
(***************************************************************************)
allowed_pdf ==
  <<"p","d","f">>

allowed_docx ==
  <<"d","o","c","x">>

allowed_doc ==
  <<"d","o","c">>

allowed_txt ==
  <<"t","x","t">>

NoContextAnswer ==
  <<"N","o","t"," ","f","o","u","n","d"," ","i","n"," ","d","o","c","u","m","e","n","t",
      " ","-"," ","n","o"," ","r","e","l","e","v","a","n","t"," ","i","n","f","o","r",
      "m","a","t","i","o","n"," ","a","v","a","i","l","a","b","l","e",".">>

ErrorPrefix ==
  <<"E","r","r","o","r"," ","g","e","n","e","r","a","t","i","n","g"," ","a","n","s","w",
      "e","r",":"," ">>

LowConfidencePrefix ==
  <<"[","L","o","w"," ","c","o","n","f","i","d","e","n","c","e","]"," ">>

LowConfidenceNote ==
  <<"\n","\n","N","o","t","e",":"," ","T","h","i","s"," ","a","n","s","w","e","r"," ","m",
      "a","y"," ","n","o","t"," ","b","e"," ","r","e","l","i","a","b","l","e","."," ",
      "P","l","e","a","s","e"," ","v","e","r","i","f","y"," ","w","i","t","h"," ","t",
      "h","e"," ","s","o","u","r","c","e"," ","d","o","c","u","m","e","n","t",".">>

Ellipsis ==
  <<".",".",".">>

phrase_not_found ==
  <<"n","o","t"," ","f","o","u","n","d">>

phrase_unclear ==
  <<"u","n","c","l","e","a","r">>

phrase_dont_know ==
  <<"d","o","n","'","t"," ","k","n","o","w">>

phrase_cannot_find ==
  <<"c","a","n","n","o","t"," ","f","i","n","d">>

phrase_no_information ==
  <<"n","o"," ","i","n","f","o","r","m","a","t","i","o","n">>

NameA ==
  <<"a",".","t","x","t">>

NameB ==
  <<"b",".","P","D","F">>

NameE ==
  <<"e",".","t","x","t">>

NameX ==
  <<"x",".","c","s","v">>

NameC ==
  <<"c",".","d","o","c">>

TextRate ==
  <<"R","a","t","e",":"," ","5","0","0"," ","U","S","D">>

TextStatus ==
  <<"C","a","r","r","i","e","r"," ","s","t","a","t","u","s"," ","u","n","c","l","e","a",
      "r">>

TextShipperUnit ==
  <<"s","h","i","p","p","e","r"," ","a","c","m","e"," ">>

QRate ==
  <<"W","h","a","t"," ","r","a","t","e">>

QStatus ==
  <<"w","h","a","t"," ","i","s"," ","s","t","a","t","u","s">>

QDup ==
  <<"S","t","a","t","u","s"," "," ","S","T","A","T","U","S","\n","r","a","t","e">>

AShort ==
  <<"5","0","0"," ","U","S","D">>

ARate ==
  <<"R","a","t","e",":"," ","5","0","0"," ","U","S","D">>

AUnclear ==
  <<"s","t","a","t","u","s"," ","u","n","c","l","e","a","r">>

ANotFound ==
  <<"N","o","t"," ","f","o","u","n","d"," ","i","n"," ","d","o","c","u","m","e","n","t">>

AUnit ==
  <<"u","n","c","l","e","a","r"," ">>

ATail ==
  <<"s","t","a","t">>

ReasonTimeout ==
  <<"t","i","m","e","o","u","t">>

Upper ==
  <<"A","B","C","D","E","F","G","H","I","J","K","L","M","N","O","P","Q","R","S","T","U",
      "V","W","X","Y","Z">>

LowerLetters ==
  <<"a","b","c","d","e","f","g","h","i","j","k","l","m","n","o","p","q","r","s","t","u",
      "v","w","x","y","z">>


(***************************************************************************)
(* Python string and list operations used by the code.                     *)
(***************************************************************************)
Max(a, b) == IF a >= b THEN a ELSE b

Min(a, b) == IF a <= b THEN a ELSE b

\* s[:n]
Prefix(s, n) == SubSeq(s, 1, Min(n, Len(s)))

\* n copies of s, concatenated
RECURSIVE Rep(_, _)
Rep(s, n) == IF n = 0 THEN <<>> ELSE s \o Rep(s, n - 1)

UpperSet == { Upper[i] : i \in 1..Len(Upper) }

LowerMap ==
  [c \in UpperSet |-> LowerLetters[CHOOSE i \in 1..Len(Upper) : Upper[i] = c]]

\* str.lower() of one character
LowerChar(c) == IF c \in UpperSet THEN LowerMap[c] ELSE c

\* str.lower()
lower(s) == SubSeq([i \in 1..Len(s) |-> LowerChar(s[i])], 1, Len(s))

IsSpace(c) == c \in {" ", "\n", "\t"}

\* set(s.split()): the maximal runs of non-whitespace characters
SplitSet(s) ==
  LET starts == { i \in 1..Len(s) :
                    ~IsSpace(s[i]) /\ (i = 1 \/ IsSpace(s[i - 1])) }
      ends   == { j \in 1..Len(s) :
                    ~IsSpace(s[j]) /\ (j = Len(s) \/ IsSpace(s[j + 1])) }
      EndOf(i) == CHOOSE j \in ends : j >= i /\ \A x \in ends : x >= i => j <= x
  IN  { SubSeq(s, i, EndOf(i)) : i \in starts }

\* k in t
IsSubstr(k, t) ==
  \/ Len(k) = 0
  \/ \E i \in 0..(Len(t) - Len(k)) :
       t[i + 1] = k[1] /\ SubSeq(t, i + 1, i + Len(k)) = k

\* s.split('.')[-1]
LastPart(s) ==
  LET dots == { i \in 1..Len(s) : s[i] = "." }
  IN  IF dots = {} THEN s
      ELSE SubSeq(s, (CHOOSE i \in dots : \A j \in dots : j <= i) + 1, Len(s))

\* " ".join(parts)
RECURSIVE JoinSpace(_)
JoinSpace(parts) ==
  IF Len(parts) = 0 THEN <<>>
  ELSE IF Len(parts) = 1 THEN parts[1]
  ELSE parts[1] \o <<" ">> \o JoinSpace(Tail(parts))

RECURSIVE SumSeq(_)
SumSeq(xs) == IF Len(xs) = 0 THEN 0 ELSE xs[1] + SumSeq(Tail(xs))

(***************************************************************************)
(* calculate_confidence.  A passage is [page_content, metadata]; a score   *)
(* in the metadata is in hundredths.  With L passages and N = max(number   *)
(* of question keywords, 1) the result is the fraction                     *)
(*   retrieval_score*0.4 + completeness_score*0.3 + overlap*0.3 - penalty  *)
(* over the denominator 1000*L*N, clamped to [0, 1].                       *)
(***************************************************************************)
uncertainty_phrases ==
  <<phrase_not_found, phrase_unclear, phrase_dont_know, phrase_cannot_find,
    phrase_no_information>>

HasScore(doc) == "score" \in DOMAIN doc.metadata

\* doc.metadata.get('score', 0)
ScoreOf(doc) == IF HasScore(doc) THEN doc.metadata.score ELSE 0

RetrievalSum_NoDefault(retrieved_docs) ==
  IF HasScore(retrieved_docs[1])
    THEN SumSeq([i \in 1..Len(retrieved_docs) |-> ScoreOf(retrieved_docs[i])])
    ELSE 0

\* sum of the retrieval scores, in hundredths (retrieval_score = sum / L)
RetrievalSum(retrieved_docs) ==
  IF HasScore(retrieved_docs[1])
    THEN SumSeq([i \in 1..Len(retrieved_docs) |-> ScoreOf(retrieved_docs[i])])
    ELSE DefaultRetrievalScore * Len(retrieved_docs)

\* completeness_score, in hundredths
Completeness(answer) ==
  IF Len(answer) > MinAnswerLen
    THEN Min(Len(answer), FullAnswerLen)
    ELSE 0

question_keywords(question) == SplitSet(lower(question))

source_text(retrieved_docs) ==
  lower(JoinSpace([i \in 1..Len(retrieved_docs) |-> retrieved_docs[i].page_content]))

\* number of question keywords found in the source text
OverlapCount(retrieved_docs, question) ==
  LET text == source_text(retrieved_docs)
  IN  Cardinality({ k \in question_keywords(question) : IsSubstr(k, text) })

IsUncertain(answer) ==
  LET lowered == lower(answer)
  IN  \E i \in 1..Len(uncertainty_phrases) :
         IsSubstr(uncertainty_phrases[i], lowered)

\* uncertainty_penalty, in tenths
Penalty(answer) == IF IsUncertain(answer) THEN 3 ELSE 0

\* the weighted combination before clamping, over the denominator 1000*L*N
RawConfidence(retrieved_docs, answer, question) ==
  LET L  == Len(retrieved_docs)
      N  == Max(Cardinality(question_keywords(question)), 1)
  IN  [num |-> 4 * RetrievalSum(retrieved_docs) * N
                 + 3 * Completeness(answer) * L * N
                 + 300 * OverlapCount(retrieved_docs, question) * L
                 - 100 * Penalty(answer) * L * N,
       den |-> 1000 * L * N]

Clamp_None(c) == c

\* max(0.0, min(1.0, confidence))
Clamp(c) == [num |-> Max(0, Min(c.den, c.num)), den |-> c.den]

calculate_confidence(retrieved_docs, answer, question) ==
  IF Len(retrieved_docs) = 0
    THEN [num |-> 0, den |-> 1]
    ELSE Clamp(RawConfidence(retrieved_docs, answer, question))

\* confidence < CONFIDENCE_THRESHOLD
BelowThreshold(c) == 10 * c.num < CONFIDENCE_THRESHOLD_TENTHS * c.den

\* round(confidence, 3), in thousandths (ties to even)
Round3(c) ==
  LET q == (1000 * c.num) \div c.den
      r == (1000 * c.num) % c.den
  IN  IF 2 * r > c.den \/ (2 * r = c.den /\ q % 2 = 1) THEN q + 1 ELSE q

(***************************************************************************)
(* Uploaded files.  A file is its filename, the text segments its loader   *)
(* yields (pages of a PDF, the text of a text file) and whether the loader *)
(* can read it.  Every segment is shorter than the splitter's chunk_size.  *)
(***************************************************************************)
FileA == [filename |-> NameA, segments |-> <<TextStatus>>, corrupt |-> FALSE]

FileB == [filename |-> NameB, segments |-> << <<>>, TextRate >>, corrupt |-> FALSE]

FileE == [filename |-> NameE, segments |-> << <<>> >>, corrupt |-> FALSE]

FileC == [filename |-> NameC, segments |-> <<TextRate>>, corrupt |-> TRUE]

FileX == [filename |-> NameX, segments |-> <<TextRate>>, corrupt |-> FALSE]

Files == {FileA, FileB, FileE, FileC, FileX}

allowed_extensions == {allowed_pdf, allowed_docx, allowed_doc, allowed_txt}

\* file.filename.split('.')[-1].lower(); load_document computes the same
\* value as filename.lower().split('.')[-1]
file_ext(filename) == lower(LastPart(filename))

\* load_document raises HTTPException(400) when the extension is unsupported
\* or loader.load() raises
LoadFails(file) ==
  \/ file_ext(file.filename) \notin allowed_extensions
  \/ file.corrupt

\* loader.load(): one document per segment, metadata source = file_path
load_document(file_path, file) ==
  [i \in 1..Len(file.segments) |->
     [page_content |-> file.segments[i], metadata |-> [source |-> file_path]]]

\* RecursiveCharacterTextSplitter(chunk_size=500).split_documents on documents
\* shorter than chunk_size: each non-empty document is one chunk
chunk_document(documents) ==
  SelectSeq(documents, LAMBDA d : Len(d.page_content) > 0)

\* sum(len(chunk.page_content) for chunk in chunks)
total_characters(chunks) ==
  SumSeq([i \in 1..Len(chunks) |-> Len(chunks[i].page_content)])

(***************************************************************************)
(* Chroma.  Chroma.from_documents(..., collection_name="logistics_docs")   *)
(* is given neither a client nor a persist directory: the wrapper opens    *)
(* chromadb.Client() with the default settings, which is the in-memory     *)
(* system shared by every such client of the process, calls                *)
(* get_or_create_collection("logistics_docs") on it and adds the chunks    *)
(* under fresh uuid4 ids.  The collection therefore outlives the wrapper   *)
(* that vector_store names, and a second call adds to what the first one   *)
(* stored.  add_texts embeds all the texts before it writes any (one       *)
(* batch, for fewer chunks than the client's maximal batch size), so a     *)
(* call that raises has added nothing.                                     *)
(***************************************************************************)
ChromaHandle == "Chroma(logistics_docs)"

\* the collection after Chroma.from_documents(documents=chunks, ...)
from_documents(collection, chunks) == collection \o chunks

\* the index state: the two globals and the collection behind the wrapper
Index ==
  [vector_store |-> vector_store,
   current_document_name |-> current_document_name,
   chroma |-> chroma]

\* lines 173-179: the index state after the two assignments of upload_document
IndexAfterUpload(index, chunks, filename) ==
  [vector_store |-> ChromaHandle,
   current_document_name |-> filename,
   chroma |-> from_documents(index.chroma, chunks)]

IndexAfterFailure_NameFirst(index, filename) ==
  [index EXCEPT !.current_document_name = filename]

\* lines 167-177: load_document, chunk_document or Chroma.from_documents
\* raises before either global is assigned
IndexAfterFailure(index, filename) == index

(***************************************************************************)
(* Responses.  response is what the latest step answered: the HTTP status, *)
(* the body, and (obs) what the handler did and saw on the way.            *)
(***************************************************************************)
NoResponse == [kind |-> "none", status |-> 0]

NoDocumentDetail == "No document uploaded. Please upload a document first."

NoDocument_Unchecked(store) == FALSE

\* lines 197 and 286: "if vector_store is None"
NoDocument(store) == store = None

Init ==
  /\ vector_store = None
  /\ current_document_name = NoName
  /\ chroma = <<>>
  /\ tmpfiles = {}
  /\ next_tmp = 1
  /\ inflight = {}
  /\ response = NoResponse
  /\ last_ok = [tmp_path |-> 0, filename |-> NoName, chunks |-> <<>>]
  /\ call = [state |-> "none"]

(***************************************************************************)
(* POST /upload.                                                           *)
(***************************************************************************)
UploadResponse(status, detail, tmp_path, body) ==
  [kind |-> "upload", status |-> status, detail |-> detail,
   tmp_path |-> tmp_path, body |-> body]

\* lines 152-158: the extension is not an allowed one
UploadRejected(file) ==
  /\ file_ext(file.filename) \notin allowed_extensions
  /\ response' = UploadResponse(400, "File type not supported", 0, <<>>)
  /\ UNCHANGED <<vector_store, current_document_name, chroma, tmpfiles,
                 next_tmp, inflight, last_ok, call>>

\* lines 160-161: NamedTemporaryFile(delete=False) creates the file, then the
\* handler is suspended at "await file.read()"
UploadBegin(file) ==
  /\ file_ext(file.filename) \in allowed_extensions
  /\ next_tmp <= MaxTmp
  /\ tmpfiles' = tmpfiles \cup {next_tmp}
  /\ next_tmp' = next_tmp + 1
  /\ inflight' = inflight \cup {[file |-> file, tmp_path |-> next_tmp]}
  /\ response' = NoResponse
  /\ UNCHANGED <<vector_store, current_document_name, chroma, last_ok, call>>

\* lines 161-163: file.read() or tmp.write(content) raises inside the "with"
\* block: the file is closed, tmp_path is never bound and the try/finally that
\* unlinks it is never entered
UploadCopyFails(r) ==
  /\ r \in inflight
  /\ inflight' = inflight \ {r}
  /\ response' = UploadResponse(500, "Copy failed", r.tmp_path, <<>>)
  /\ UNCHANGED <<vector_store, current_document_name, chroma, tmpfiles,
                 next_tmp, last_ok, call>>

\* lines 165-167, 188-189: load_document raises HTTPException(400)
UploadLoadFails(r) ==
  /\ r \in inflight
  /\ LoadFails(r.file)
  /\ LET after == IndexAfterFailure(Index, r.file.filename)
     IN  /\ vector_store' = after.vector_store
         /\ current_document_name' = after.current_document_name
         /\ chroma' = after.chroma
  /\ inflight' = inflight \ {r}
  /\ tmpfiles' = tmpfiles \ {r.tmp_path}
  /\ response' = UploadResponse(400, "Error loading document", r.tmp_path, <<>>)
  /\ UNCHANGED <<next_tmp, last_ok, call>>

\* lines 170-177, 188-189: chunk_document or Chroma.from_documents raises
\* (the splitter, or the embedding of the chunks)
UploadIngestFails(r) ==
  /\ r \in inflight
  /\ ~LoadFails(r.file)
  /\ LET after == IndexAfterFailure(Index, r.file.filename)
     IN  /\ vector_store' = after.vector_store
         /\ current_document_name' = after.current_document_name
         /\ chroma' = after.chroma
  /\ inflight' = inflight \ {r}
  /\ tmpfiles' = tmpfiles \ {r.tmp_path}
  /\ response' = UploadResponse(500, "Ingest failed", r.tmp_path, <<>>)
  /\ UNCHANGED <<next_tmp, last_ok, call>>

\* lines 165-189: the upload succeeds
UploadSucceeds(r) ==
  /\ r \in inflight
  /\ ~LoadFails(r.file)
  /\ LET documents == load_document(r.tmp_path, r.file)
         chunks    == chunk_document(documents)
         after     == IndexAfterUpload(Index, chunks, r.file.filename)
     IN  /\ Len(chroma) + Len(chunks) <= MaxColl
         /\ vector_store' = after.vector_store
         /\ current_document_name' = after.current_document_name
         /\ chroma' = after.chroma
         /\ last_ok' = [tmp_path |-> r.tmp_path, filename |-> r.file.filename,
                        chunks |-> chunks]
         /\ response' = UploadResponse(200, "", r.tmp_path,
                          [message |-> "Document uploaded and processed successfully",
                           filename |-> r.file.filename,
                           chunks_created |-> Len(chunks),
                           total_characters |-> total_characters(chunks)])
  /\ inflight' = inflight \ {r}
  /\ tmpfiles' = tmpfiles \ {r.tmp_path}
  /\ UNCHANGED <<next_tmp, call>>

(***************************************************************************)
(* POST /ask.  The questions a client sends, and what the language model   *)
(* can do with a prompt: return some text, or raise.                       *)
(***************************************************************************)
ALong == Rep(TextShipperUnit, 8)

ABoundary == Rep(AUnit, 7) \o ATail

Questions == {QRate, QStatus, QDup, <<>>}

Said(text) == [ok |-> TRUE, text |-> text]

Raised(reason) == [ok |-> FALSE, text |-> reason]

\* a question and what the model does with its prompt
Exchanges ==
  { <<QRate, Said(ARate)>>, <<QRate, Raised(ReasonTimeout)>>,
    <<QStatus, Said(AUnclear)>>, <<QStatus, Said(ABoundary)>>,
    <<QDup, Said(ANotFound)>>, << <<>>, Said(ALong) >> }

\* retriever.invoke(question): the min(k, n) nearest passages of the
\* collection, best first; the similarity order is the embedding's, so any
\* order of any min(k, n) distinct passages
Retrievals(collection) ==
  LET n == Len(collection)
      m == Min(TopK, n)
  IN  { [i \in 1..m |-> collection[f[i]]] :
          f \in { g \in [1..m -> 1..n] :
                    \A i, j \in 1..m : i # j => g[i] # g[j] } }

\* [doc.page_content[:200] + "..." for doc in source_docs[:3]]
Previews(source_docs) ==
  [i \in 1..Min(MaxSources, Len(source_docs)) |->
     Prefix(source_docs[i].page_content, PreviewLen) \o Ellipsis]

\* lines 253, 257: result["result"], or the fallback text of the except branch
AnswerOf(outcome) ==
  IF outcome.ok THEN outcome.text ELSE ErrorPrefix \o outcome.text

\* lines 262-268: the low-confidence guardrail
Guardrail(answer, confidence) ==
  IF BelowThreshold(confidence)
    THEN [answer   |-> LowConfidencePrefix \o answer \o LowConfidenceNote,
          metadata |-> [guardrail |-> "low_confidence",
                        original_confidence |-> confidence]]
    ELSE [answer   |-> answer,
          metadata |-> [guardrail |-> "passed"]]

AskError(status, detail, failure, retriever_invoked) ==
  [kind |-> "ask", status |-> status, detail |-> detail, failure |-> failure,
   retriever_invoked |-> retriever_invoked, llm_invoked |-> FALSE]

\* lines 197-201
AskNoDocument ==
  /\ NoDocument(vector_store)
  /\ response' = AskError(400, NoDocumentDetail, "no_document", FALSE)
  /\ UNCHANGED <<vector_store, current_document_name, chroma, tmpfiles,
                 next_tmp, inflight, last_ok, call>>

\* line 208: retriever.invoke raises (the embedding of the question)
AskRetrievalFails ==
  /\ ~NoDocument(vector_store)
  /\ response' = AskError(500, "Internal Server Error", "retriever", TRUE)
  /\ UNCHANGED <<vector_store, current_document_name, chroma, tmpfiles,
                 next_tmp, inflight, last_ok, call>>

\* lines 210-216: nothing was retrieved
AskNoContext(question) ==
  /\ ~NoDocument(vector_store)
  /\ \E retrieved_docs \in Retrievals(chroma) :
       /\ Len(retrieved_docs) = 0
       /\ response' =
            [kind |-> "ask", status |-> 200, question |-> question,
             retrieved_docs |-> retrieved_docs,
             failure |-> "none",
             retriever_invoked |-> TRUE, llm_invoked |-> FALSE,
             body |-> [answer     |-> NoContextAnswer,
                       sources    |-> <<>>,
                       confidence |-> 0,
                       metadata   |-> [guardrail |-> "no_context_found"]]]
  /\ UNCHANGED <<vector_store, current_document_name, chroma, tmpfiles,
                 next_tmp, inflight, last_ok, call>>

\* lines 219-249: ChatGoogleGenerativeAI(...) or RetrievalQA.from_chain_type
\* raises (no usable GEMINI_API_KEY); the calls are outside the try block
AskLlmUnavailable ==
  /\ ~NoDocument(vector_store)
  /\ \E retrieved_docs \in Retrievals(chroma) : Len(retrieved_docs) > 0
  /\ response' = AskError(500, "Internal Server Error", "llm_init", TRUE)
  /\ UNCHANGED <<vector_store, current_document_name, chroma, tmpfiles,
                 next_tmp, inflight, last_ok, call>>

\* lines 251-278: the chain runs (it retrieves the same passages again and
\* calls the model), the answer is scored and labelled
AskAnswered(question, outcome) ==
  /\ ~NoDocument(vector_store)
  /\ \E retrieved_docs \in Retrievals(chroma) :
       /\ Len(retrieved_docs) > 0
       /\ LET answer      == AnswerOf(outcome)
              source_docs == retrieved_docs
              confidence  == calculate_confidence(source_docs, answer, question)
              guarded     == Guardrail(answer, confidence)
          IN  response' =
                [kind |-> "ask", status |-> 200, question |-> question,
                 retrieved_docs |-> retrieved_docs,
                 failure |-> IF outcome.ok THEN "none" ELSE "llm_call",
                 retriever_invoked |-> TRUE, llm_invoked |-> TRUE,
                 llm_text |-> outcome.text,
                 raw_answer |-> answer,
                 scored |-> confidence,
                 body |-> [answer     |-> guarded.answer,
                           sources    |-> Previews(source_docs),
                           confidence |-> Round3(confidence),
                           metadata   |-> guarded.metadata]]
  /\ UNCHANGED <<vector_store, current_document_name, chroma, tmpfiles,
                 next_tmp, inflight, last_ok, call>>

(***************************************************************************)
(* POST /extract.  A reply of the language model is a sequence of tokens:  *)
(* prose, an opening or a closing brace, a "key": value member (the value  *)
(* a string, null, or a list), or the JSON literal null.                   *)
(***************************************************************************)
Fields ==
  {"shipment_id", "shipper", "consignee", "pickup_datetime", "delivery_datetime",
   "equipment_type", "mode", "rate", "currency", "weight", "carrier_name"}

Prose(s) == [t |-> "prose", k |-> "", vt |-> "", v |-> s]

LBrace == [t |-> "{", k |-> "", vt |-> "", v |-> ""]

RBrace == [t |-> "}", k |-> "", vt |-> "", v |-> ""]

JsonNull == [t |-> "null", k |-> "", vt |-> "", v |-> ""]

Member(k, vt, v) == [t |-> "member", k |-> k, vt |-> vt, v |-> v]

ReplyGood ==
  <<Prose("Sure!"), LBrace, Member("shipment_id", "str", "X123"),
    Member("shipper", "null", None), RBrace>>

ReplyExtraKey ==
  <<LBrace, Member("mode", "str", "LTL"), Member("notes", "str", "fragile"),
    Member("mode", "str", "FTL"), RBrace>>

ReplyProse == <<Prose("I cannot extract this")>>

ReplyTwoObjects ==
  <<LBrace, Member("rate", "str", "500"), RBrace, Prose("or"),
    LBrace, Member("rate", "str", "600"), RBrace>>

ReplyListValue == <<LBrace, Member("weight", "list", "[1200]"), RBrace>>

ReplyNull == <<JsonNull>>

Replies ==
  {ReplyGood, ReplyExtraKey, ReplyProse, ReplyTwoObjects, ReplyListValue, ReplyNull}

ExtractOutcomes ==
  [ok : {TRUE}, reply : Replies] \cup [ok : {FALSE}, reply : {<<>>}]

\* StructuredData(): every field None
AllNull == [f \in Fields |-> None]

\* re.search(r'\{.*\}', result_text, re.DOTALL): from the first "{" to the
\* last "}" after it; <<>> when there is no match
json_match(result_text) ==
  LET opens  == { i \in 1..Len(result_text) : result_text[i].t = "{" }
      first  == CHOOSE i \in opens : \A j \in opens : i <= j
      closes == { i \in 1..Len(result_text) :
                    result_text[i].t = "}" /\ opens # {} /\ i > first }
      last   == CHOOSE i \in closes : \A j \in closes : j <= i
  IN  IF opens = {} \/ closes = {} THEN <<>>
      ELSE SubSeq(result_text, first, last)

\* json.loads(text): [ok, is_dict, members]; an object is a brace, members and
\* a brace, and the only other document of the token alphabet is null
json_loads(text) ==
  IF /\ Len(text) >= 2
     /\ text[1].t = "{"
     /\ text[Len(text)].t = "}"
     /\ \A i \in 2..(Len(text) - 1) : text[i].t = "member"
    THEN [ok |-> TRUE, is_dict |-> TRUE, members |-> SubSeq(text, 2, Len(text) - 1)]
  ELSE IF text = <<JsonNull>>
    THEN [ok |-> TRUE, is_dict |-> FALSE, members |-> <<>>]
  ELSE [ok |-> FALSE, is_dict |-> FALSE, members |-> <<>>]

\* the member that gives key k its value: the last one (json.loads keeps the
\* last of duplicate keys)
LastMember(members, k) ==
  members[CHOOSE i \in 1..Len(members) :
            /\ members[i].k = k
            /\ \A j \in 1..Len(members) : members[j].k = k => j <= i]

Keys(members) == { members[i].k : i \in 1..Len(members) }

\* StructuredData(**extracted_data) raises: a value that is neither a string
\* nor null for one of the fields
ValidationFails(members) ==
  \E k \in Keys(members) \cap Fields :
     LastMember(members, k).vt \notin {"str", "null"}

\* StructuredData(**extracted_data): unknown keys ignored, missing fields None
StructuredData(members) ==
  [f \in Fields |->
     IF f \in Keys(members) THEN LastMember(members, f).v ELSE None]

\* lines 323-336: the try block and its except branch
ExtractRecord(outcome) ==
  IF ~outcome.ok THEN AllNull
  ELSE LET result_text == outcome.reply
           m       == json_match(result_text)
           decoded == IF Len(m) > 0 THEN json_loads(m) ELSE json_loads(result_text)
       IN  IF ~decoded.ok \/ ~decoded.is_dict \/ ValidationFails(decoded.members)
             THEN AllNull
             ELSE StructuredData(decoded.members)

\* line 292: vector_store.get(), every stored passage in insertion order
get_all(collection) == collection

\* lines 293, 304: the document text of the prompt
PromptDocument(all_docs) ==
  Prefix(JoinSpace([i \in 1..Len(all_docs) |-> all_docs[i].page_content]),
         PromptDocLen)

\* lines 286-290
ExtractNoDocument ==
  /\ NoDocument(vector_store)
  /\ response' = [kind |-> "extract", status |-> 400, detail |-> NoDocumentDetail,
                  failure |-> "no_document",
                  retriever_invoked |-> FALSE, llm_invoked |-> FALSE]
  /\ UNCHANGED <<vector_store, current_document_name, chroma, tmpfiles,
                 next_tmp, inflight, last_ok, call>>

\* lines 295-299: ChatGoogleGenerativeAI(...) raises, outside the try block
ExtractLlmUnavailable ==
  /\ ~NoDocument(vector_store)
  /\ response' = [kind |-> "extract", status |-> 500,
                  detail |-> "Internal Server Error", failure |-> "llm_init",
                  retriever_invoked |-> FALSE, llm_invoked |-> FALSE]
  /\ UNCHANGED <<vector_store, current_document_name, chroma, tmpfiles,
                 next_tmp, inflight, last_ok, call>>

\* lines 292-336
ExtractAnswered(outcome) ==
  /\ ~NoDocument(vector_store)
  /\ LET all_docs == get_all(chroma)
     IN  response' = [kind |-> "extract", status |-> 200,
                      failure |-> IF outcome.ok THEN "none" ELSE "llm_call",
                      retriever_invoked |-> FALSE, llm_invoked |-> TRUE,
                      all_docs |-> all_docs,
                      prompt_document |-> PromptDocument(all_docs),
                      outcome |-> outcome,
                      body |-> ExtractRecord(outcome)]
  /\ UNCHANGED <<vector_store, current_document_name, chroma, tmpfiles,
                 next_tmp, inflight, last_ok, call>>

(***************************************************************************)
(* GET /status.                                                            *)
(***************************************************************************)
get_status ==
  /\ response' = [kind |-> "status", status |-> 200,
                  body |-> [status |-> "online",
                            document_loaded |-> current_document_name # NoName,
                            current_document |-> current_document_name,
                            vector_store_initialized |-> vector_store # None]]
  /\ UNCHANGED <<vector_store, current_document_name, chroma, tmpfiles,
                 next_tmp, inflight, last_ok, call>>

(***************************************************************************)
(* The service: any client request at any time.                            *)
(***************************************************************************)
Next ==
  \/ \E file \in Files : UploadRejected(file)
  \/ \E file \in Files : UploadBegin(file)
  \/ \E r \in inflight : UploadCopyFails(r)
  \/ \E r \in inflight : UploadLoadFails(r)
  \/ \E r \in inflight : UploadIngestFails(r)
  \/ \E r \in inflight : UploadSucceeds(r)
  \/ AskNoDocument
  \/ AskRetrievalFails
  \/ \E question \in Questions : AskNoContext(question)
  \/ AskLlmUnavailable
  \/ \E x \in Exchanges : AskAnswered(x[1], x[2])
  \/ ExtractNoDocument
  \/ ExtractLlmUnavailable
  \/ \E outcome \in ExtractOutcomes : ExtractAnswered(outcome)
  \/ get_status

Spec == Init /\ [][Next]_vars

(***************************************************************************)
(* calculate_confidence called directly: the passages may carry a score    *)
(* in their metadata (in hundredths, also outside [0, 1]), which the       *)
(* retriever of /ask never sets.                                           *)
(***************************************************************************)
\* passages in one call
MaxScoreDocs == 2

ScoreMetadata ==
  {[source |-> 1]} \cup [source : {1}, score : {-50, 30, 100, 250}]

ScorePassages == [page_content : {TextStatus, TextRate}, metadata : ScoreMetadata]

ScoreDocs ==
  UNION { [1..n -> ScorePassages] : n \in 0..MaxScoreDocs }

ScoreAnswers == {AShort, ARate, AUnclear, ANotFound, ALong, ABoundary, <<>>}

InitScorer ==
  /\ vector_store = None
  /\ current_document_name = NoName
  /\ chroma = <<>>
  /\ tmpfiles = {}
  /\ next_tmp = 1
  /\ inflight = {}
  /\ response = NoResponse
  /\ last_ok = [tmp_path |-> 0, filename |-> NoName, chunks |-> <<>>]
  /\ call \in [state : {"called"}, retrieved_docs : ScoreDocs,
               answer : ScoreAnswers, question : Questions]

\* the call returns
ScorerReturns ==
  /\ call.state = "called"
  /\ call' = [state |-> "returned",
              retrieved_docs |-> call.retrieved_docs,
              answer |-> call.answer,
              question |-> call.question,
              result |-> calculate_confidence(call.retrieved_docs, call.answer,
                                              call.question)]
  /\ UNCHANGED <<vector_store, current_document_name, chroma, tmpfiles,
                 next_tmp, inflight, response, last_ok>>

NextScorer == ScorerReturns

SpecScorer == InitScorer /\ [][NextScorer]_vars

(***************************************************************************)
(* Properties.                                                             *)
(***************************************************************************)
AskAnsweredNow == response.kind = "ask" /\ response.status = 200

ExtractAnsweredNow == response.kind = "extract" /\ response.status = 200

FromLatestUpload(docs) ==
  \A i \in 1..Len(docs) : docs[i].metadata.source = last_ok.tmp_path

\* C1: after a successful upload that follows another one, the retrieval of
\* /ask and the dump of /extract return only passages of the latest upload,
\* never one of an earlier upload.
C1_ReplacedNotMerged ==
  /\ AskAnsweredNow => FromLatestUpload(response.retrieved_docs)
  /\ ExtractAnsweredNow => FromLatestUpload(response.all_docs)

\* C2: as long as no upload has succeeded, /ask and /extract answer 400
\* "no document uploaded", invoke neither the retriever nor the language
\* model, and leave the index state as it was.
C2_NoDocumentBeforeFirstUpload ==
  [][ (last_ok.tmp_path = 0 /\ response'.kind \in {"ask", "extract"}) =>
        /\ response'.status = 400
        /\ response'.detail = NoDocumentDetail
        /\ ~response'.retriever_invoked
        /\ ~response'.llm_invoked
        /\ UNCHANGED <<vector_store, current_document_name, chroma>> ]_vars

\* /ask answered 400 after an upload created a file and failed
C2_Witness ==
  /\ last_ok.tmp_path = 0
  /\ next_tmp > 1
  /\ inflight = {}
  /\ response.kind = "ask"
  /\ response.status = 400

\* C3: what a request other than /upload observes is the complete index state
\* of one upload: /status sees both globals set or neither and the name of
\* the latest successful upload, /extract reads exactly the passages of that
\* upload, /ask retrieves from exactly those passages.
C3_AtomicIngest ==
  /\ response.kind = "status" =>
       /\ response.body.document_loaded = response.body.vector_store_initialized
       /\ response.body.current_document = last_ok.filename
  /\ ExtractAnsweredNow =>
       /\ response.all_docs = last_ok.chunks
       /\ current_document_name = last_ok.filename
  /\ AskAnsweredNow =>
       /\ response.retrieved_docs \in Retrievals(last_ok.chunks)
       /\ current_document_name = last_ok.filename

\* C4: every /ask made with a document loaded gets exactly one guardrail tag:
\* no_context_found iff nothing was retrieved (fixed answer, no sources,
\* confidence 0, no model call); otherwise low_confidence iff the confidence
\* is below 0.3 (marked answer, original confidence in the metadata);
\* otherwise passed with the answer unmodified.
C4_GuardrailDecision ==
  (response.kind = "ask" /\ response.failure # "no_document") =>
    /\ response.status = 200
    /\ LET tag  == response.body.metadata.guardrail
           body == response.body
       IN  /\ (tag = "no_context_found") = (Len(response.retrieved_docs) = 0)
           /\ tag = "no_context_found" =>
                /\ body.answer = NoContextAnswer
                /\ body.sources = <<>>
                /\ body.confidence = 0
                /\ ~response.llm_invoked
           /\ tag # "no_context_found" =>
                /\ (tag = "low_confidence") = BelowThreshold(response.scored)
                /\ tag = "low_confidence" =>
                     /\ body.answer = LowConfidencePrefix \o response.raw_answer
                                        \o LowConfidenceNote
                     /\ body.metadata.original_confidence = response.scored
                /\ tag # "low_confidence" =>
                     /\ tag = "passed"
                     /\ body.answer = response.raw_answer

\* C5: when the language-model provider fails on an /ask with passages
\* retrieved, the answer is still a 200: a text that embeds the reason, the
\* previews of the retrieved passages, scored and labelled as usual.
C5_LlmFailureNeverFails ==
  (response.kind = "ask" /\ response.failure \in {"llm_init", "llm_call"}) =>
    /\ response.status = 200
    /\ response.raw_answer = ErrorPrefix \o response.llm_text
    /\ response.body.sources = Previews(response.retrieved_docs)
    /\ response.scored = calculate_confidence(response.retrieved_docs,
                                               response.raw_answer, response.question)
    /\ response.body.metadata.guardrail =
         (IF BelowThreshold(response.scored) THEN "low_confidence" ELSE "passed")

\* C6: every /extract made with a document loaded is answered 200 with the
\* 11-field record, all fields null when anything went wrong.
C6_ExtractNeverFails ==
  (response.kind = "extract" /\ response.failure # "no_document") =>
    /\ response.status = 200
    /\ DOMAIN response.body = Fields
    /\ response.failure # "none" => response.body = AllNull

\* C7: the result of calculate_confidence lies in [0, 1], whatever the
\* passages, their scores, the answer and the question are, and is 0 for an
\* empty passage list.
C7_ConfidenceInUnitInterval ==
  call.state = "returned" =>
    /\ call.result.den > 0
    /\ 0 <= call.result.num
    /\ call.result.num <= call.result.den
    /\ Len(call.retrieved_docs) = 0 => call.result.num = 0

\* a call with a score above 1 in the metadata whose weighted sum is over 1
C7_Witness ==
  /\ call.state = "returned"
  /\ Len(call.retrieved_docs) > 0
  /\ HasScore(call.retrieved_docs[1])
  /\ ScoreOf(call.retrieved_docs[1]) > 100
  /\ LET raw == RawConfidence(call.retrieved_docs, call.answer, call.question)
     IN  raw.num > raw.den
  /\ call.result.num = call.result.den

\* the answer of the model is verbatim in a retrieved passage of the latest
\* upload, no score is exposed, and the answer has at least 10 characters
RoundTripCase ==
  /\ AskAnsweredNow
  /\ response.llm_invoked
  /\ response.failure = "none"
  /\ Len(response.raw_answer) >= MinAnswerLen
  /\ ~HasScore(response.retrieved_docs[1])
  /\ \E i \in 1..Len(response.retrieved_docs) :
        /\ response.retrieved_docs[i].metadata.source = last_ok.tmp_path
        /\ IsSubstr(response.raw_answer, response.retrieved_docs[i].page_content)

RoundTripPassed ==
  /\ ~BelowThreshold(response.scored)
  /\ response.body.metadata.guardrail = "passed"

\* C8 as stated: in the round-trip case the confidence is at least 0.3 and
\* the outcome is passed.
C8_RoundTripPasses == RoundTripCase => RoundTripPassed

\* C8 amended: in the round-trip case, when the lowercase answer contains
\* none of the uncertainty phrases, the confidence is at least 0.3 and the
\* outcome is passed.
C8_RoundTripPassesWithoutUncertainty ==
  (RoundTripCase /\ ~IsUncertain(response.raw_answer)) => RoundTripPassed

C8_Witness ==
  /\ RoundTripCase
  /\ ~IsUncertain(response.raw_answer)
  /\ RoundTripPassed

\* C9: when an /upload request that created a temporary file has ended, the
\* file no longer exists.
C9_TempFileDeleted ==
  (response.kind = "upload" /\ response.tmp_path # 0) =>
    response.tmp_path \notin tmpfiles

\* C10: the index state changes only in a successful upload, a failed upload
\* leaves it as it was, and once an upload has succeeded both globals stay
\* set: /ask and /extract never answer 400 again and /status reports a
\* loaded document.
C10_IndexChangesOnlyOnSuccess ==
  [][ /\ (Index' # Index) => (response'.kind = "upload" /\ response'.status = 200)
      /\ (response'.kind = "upload" /\ response'.status # 200) => (Index' = Index)
      /\ (last_ok.tmp_path # 0) =>
           /\ vector_store' # None
           /\ current_document_name' # NoName
           /\ response'.kind \in {"ask", "extract"} => response'.status # 400
           /\ response'.kind = "status" => response'.body.document_loaded ]_vars

\* an upload that created a file failed after an earlier one had succeeded,
\* and the earlier document is still the current one
C10_Witness ==
  /\ last_ok.tmp_path # 0
  /\ response.kind = "upload"
  /\ response.status # 200
  /\ response.tmp_path > last_ok.tmp_path
  /\ current_document_name = last_ok.filename
  /\ vector_store # None
====
